---------------------------- MODULE Spec2Model ----------------------------
(***************************************************************************)
(* namedtuple-maker: the attribute-name validator                          *)
(* (validate_attribute_input) and the decorator named_tuple_converter,     *)
(* whose inner function convert_to_namedtuple turns the iterable returned  *)
(* by the decorated function into a collections.namedtuple.                *)
(*                                                                         *)
(* A string is a sequence of characters; a character is a one-element      *)
(* TLA+ string.  Characters are classified the way Python's str.strip()    *)
(* and the three compiled regular expressions classify them.               *)
(***************************************************************************)
EXTENDS Naturals, Sequences, FiniteSets

(***************************************************************************)
(* Bounds of the model.                                                    *)
(***************************************************************************)
\* longest raw name enumerated character by character
MaxNameLen == 3
\* longest list of already chosen names put in front of an enumerated name
MaxPrefix == 2
\* most calls of validate_attribute_input on the same list
MaxCalls == 2
\* longest value sequence the decorated function returns
MaxValues == 2
\* longest attribute_names keyword argument
MaxNames == 2
\* most messages a caller logs after initialize_logging returned
MaxMessages == 2

(***************************************************************************)
(* Character classes.                                                      *)
(***************************************************************************)
\* [a-zA-Z]
AsciiLetters ==
    {"a", "b", "c", "d", "e", "f", "g", "h", "i", "j", "k", "l", "m",
     "n", "o", "p", "q", "r", "s", "t", "u", "v", "w", "x", "y", "z",
     "A", "B", "C", "D", "E", "F", "G", "H", "I", "J", "K", "L", "M",
     "N", "O", "P", "Q", "R", "S", "T", "U", "V", "W", "X", "Y", "Z"}

DecimalDigits == {"0", "1", "2", "3", "4", "5", "6", "7", "8", "9"}

\* a letter outside ASCII ("U+00E9" is e with acute accent): matched by \w
\* of a str pattern, not matched by [a-zA-Z]
NonAsciiLetters == {"U+00E9"}

\* \s of a str pattern, and what str.strip() removes
WhitespaceCharacters == {" ", "\t"}

\* punctuation and symbols: neither \w nor \s nor _ nor -
PunctuationCharacters == {"#", "$", "*", "(", ")", "+", "!", "@"}

\* \w of a str pattern
WordCharacters == AsciiLetters \cup DecimalDigits \cup NonAsciiLetters \cup {"_"}

\* one character of every class, to enumerate raw names from
Chars == {"a", "1", "_", "-", " ", "#", "U+00E9"}

(***************************************************************************)
(* str.strip()                                                             *)
(***************************************************************************)
RECURSIVE LStrip(_)
LStrip(s) ==
    IF s = <<>> THEN s
    ELSE IF Head(s) \in WhitespaceCharacters THEN LStrip(Tail(s)) ELSE s

RECURSIVE RStrip(_)
RStrip(s) ==
    IF s = <<>> THEN s
    ELSE IF s[Len(s)] \in WhitespaceCharacters
         THEN RStrip(SubSeq(s, 1, Len(s) - 1))
         ELSE s

Strip(s) == RStrip(LStrip(s))

(***************************************************************************)
(* The three substitutions.                                                *)
(***************************************************************************)
\* ATTRIBUTE_INPUT_START_CHARACTER.sub(repl='', string=s): the pattern
\* ^[^a-zA-Z]+ matches once, the longest run of characters other than
\* ASCII letters at the start of the string
RECURSIVE StartCharacterOneOrMore(_)
StartCharacterOneOrMore(s) ==
    IF s = <<>> THEN s
    ELSE IF Head(s) \notin AsciiLetters
         THEN StartCharacterOneOrMore(Tail(s))
         ELSE s

\* the same pattern without its + : a single leading character is removed
StartCharacterOnce(s) ==
    IF s # <<>> /\ Head(s) \notin AsciiLetters THEN Tail(s) ELSE s

StartCharacterSub(s) == StartCharacterOneOrMore(s)

\* the characters [^\w\s_-] leaves alone
AllowedCharacters == WordCharacters \cup WhitespaceCharacters \cup {"_", "-"}

KeepAllowed(c) == c \in AllowedCharacters

\* ATTRIBUTE_INPUT_INVALID_CHARACTERS.sub(repl='', string=s)
InvalidCharactersSub(s) == SelectSeq(s, KeepAllowed)

\* ATTRIBUTE_INPUT_SPACE_CHARACTERS.sub(repl='_', string=s)
SpaceCharactersSub(s) ==
    [k \in 1..Len(s) |-> IF s[k] \in WhitespaceCharacters THEN "_" ELSE s[k]]

(***************************************************************************)
(* f'index_{index}': the decimal digits of a natural number.               *)
(***************************************************************************)
DigitCharacter(d) ==
    CASE d = 0 -> "0" [] d = 1 -> "1" [] d = 2 -> "2" [] d = 3 -> "3"
      [] d = 4 -> "4" [] d = 5 -> "5" [] d = 6 -> "6" [] d = 7 -> "7"
      [] d = 8 -> "8" [] d = 9 -> "9"

RECURSIVE FormatDecimal(_)
FormatDecimal(n) ==
    IF n < 10 THEN <<DigitCharacter(n)>>
    ELSE Append(FormatDecimal(n \div 10), DigitCharacter(n % 10))

IndexPrefix == <<"i", "n", "d", "e", "x", "_">>

IndexName(index) == IndexPrefix \o FormatDecimal(index)

\* a fallback name that does not embed the position
IndexNameNoPosition(index) == IndexPrefix

\* the name an attribute left blank by the substitutions receives
BlankAttributeName(index) == IndexName(index)

(***************************************************************************)
(* One iteration of the loop of validate_attribute_input: the new value of *)
(* attribute_names[index].                                                 *)
(***************************************************************************)
\* the substitutions with a single strip() before the first of them
ValidateNameStripOnce(name, index) ==
    LET started == StartCharacterSub(Strip(name))
        cleaned == InvalidCharactersSub(started)
        spaced  == SpaceCharactersSub(cleaned)
    IN  IF spaced = <<>> THEN BlankAttributeName(index) ELSE spaced

\* the substitutions without the strip() before the last of them
ValidateNameNoLastStrip(name, index) ==
    LET started == StartCharacterSub(Strip(name))
        cleaned == InvalidCharactersSub(Strip(started))
        spaced  == SpaceCharactersSub(cleaned)
    IN  IF spaced = <<>> THEN BlankAttributeName(index) ELSE spaced

ValidateName(name, index) ==
    LET started == StartCharacterSub(Strip(name))
        cleaned == InvalidCharactersSub(Strip(started))
        spaced  == SpaceCharactersSub(Strip(cleaned))
    IN  IF spaced = <<>> THEN BlankAttributeName(index) ELSE spaced

(***************************************************************************)
(* collections.namedtuple(typename='NamedTuple', field_names=names), as    *)
(* convert_to_namedtuple calls it (rename is left False): every field name *)
(* must be an identifier, must not be a keyword, must not start with an    *)
(* underscore and must not repeat an earlier one.                          *)
(***************************************************************************)
\* keyword.kwlist
PythonKeywords ==
    {<<"F", "a", "l", "s", "e">>, <<"N", "o", "n", "e">>,
     <<"T", "r", "u", "e">>, <<"a", "n", "d">>, <<"a", "s">>,
     <<"a", "s", "s", "e", "r", "t">>, <<"a", "s", "y", "n", "c">>,
     <<"a", "w", "a", "i", "t">>, <<"b", "r", "e", "a", "k">>,
     <<"c", "l", "a", "s", "s">>,
     <<"c", "o", "n", "t", "i", "n", "u", "e">>, <<"d", "e", "f">>,
     <<"d", "e", "l">>, <<"e", "l", "i", "f">>, <<"e", "l", "s", "e">>,
     <<"e", "x", "c", "e", "p", "t">>,
     <<"f", "i", "n", "a", "l", "l", "y">>, <<"f", "o", "r">>,
     <<"f", "r", "o", "m">>, <<"g", "l", "o", "b", "a", "l">>,
     <<"i", "f">>, <<"i", "m", "p", "o", "r", "t">>, <<"i", "n">>,
     <<"i", "s">>, <<"l", "a", "m", "b", "d", "a">>,
     <<"n", "o", "n", "l", "o", "c", "a", "l">>, <<"n", "o", "t">>,
     <<"o", "r">>, <<"p", "a", "s", "s">>, <<"r", "a", "i", "s", "e">>,
     <<"r", "e", "t", "u", "r", "n">>, <<"t", "r", "y">>,
     <<"w", "h", "i", "l", "e">>, <<"w", "i", "t", "h">>,
     <<"y", "i", "e", "l", "d">>}

\* str.isidentifier() on the characters of the model
IsIdentifier(name) ==
    /\ name # <<>>
    /\ name[1] \in AsciiLetters \cup NonAsciiLetters \cup {"_"}
    /\ \A k \in 1..Len(name) : name[k] \in WordCharacters

\* first loop of namedtuple, over the names in order: identifier, keyword
IdentifierError(name) ==
    IF ~IsIdentifier(name)
    THEN "Type names and field names must be valid identifiers"
    ELSE IF name \in PythonKeywords
    THEN "Type names and field names cannot be a keyword"
    ELSE "none"

\* second loop of namedtuple, over the names in order: underscore, duplicate
SeenError(names, k) ==
    IF names[k][1] = "_"
    THEN "Field names cannot start with an underscore"
    ELSE IF \E j \in 1..(k - 1) : names[j] = names[k]
    THEN "Encountered duplicate field name"
    ELSE "none"

\* the ValueError namedtuple raises for the field names, "none" without one
NamedTupleError(names) ==
    LET bad1 == {k \in 1..Len(names) : IdentifierError(names[k]) # "none"}
        bad2 == {k \in 1..Len(names) : SeenError(names, k) # "none"}
        least(S) == CHOOSE k \in S : \A j \in S : k <= j
    IN  IF bad1 # {} THEN IdentifierError(names[least(bad1)])
        ELSE IF bad2 # {} THEN SeenError(names, least(bad2))
        ELSE "none"

(***************************************************************************)
(* Inputs.                                                                 *)
(***************************************************************************)
\* the values the decorated function may return
Values == {"v1", "v2"}

\* every sequence over S of length at most n
SeqsUpTo(S, n) == UNION {[1..k -> S] : k \in 0..n}

\* raw names callers pass and users type: the shapes of the test data
\* ('first_name', '', '_first_name', 'hair color #', a hyphenated name, a
\* name of the form index_<i>, a keyword)
NamePool ==
    {<<"a">>, <<>>, <<"_", "a">>, <<"a", " ", "b", " ", "#">>,
     <<"a", "-", "b">>, IndexName(1), <<"i", "f">>}

\* names put in front of an enumerated raw name
PrefixNames == {<<"a">>, <<>>, IndexName(1)}

\* the lists validate_attribute_input is called with directly
ValidateInputs ==
    {<<>>} \cup
    {pre \o <<name>> : pre \in SeqsUpTo(PrefixNames, MaxPrefix),
                       name \in SeqsUpTo(Chars, MaxNameLen)}

\* kwargs.get('attribute_names'): the keyword is absent, is None or is an
\* iterable of names, whose items list(...) reads
NoAttributeNames == [given |-> FALSE, is_none |-> TRUE, items |-> <<>>]

NoneAttributeNames == [given |-> TRUE, is_none |-> TRUE, items |-> <<>>]

AttributeNamesArguments ==
    {NoAttributeNames, NoneAttributeNames} \cup
    {[given |-> TRUE, is_none |-> FALSE, items |-> names] :
        names \in SeqsUpTo(NamePool, MaxNames)}

\* kwargs.get('auto_attribute_names')
AutoAttributeNamesArguments == {"absent", "True", "False"}

\* the argument for iterable_input: an iterable with its items, or an
\* object that is not iterable
NoArgument == [given |-> FALSE, iterable |-> FALSE, items |-> <<>>]

NotIterable == [given |-> TRUE, iterable |-> FALSE, items |-> <<>>]

IterableArguments ==
    {NotIterable} \cup
    {[given |-> TRUE, iterable |-> TRUE, items |-> values] :
        values \in SeqsUpTo(Values, MaxValues)}

\* how the caller passes iterable_input
Passings == {"positional", "keyword"}

(***************************************************************************)
(* The decorated functions: their parameters in order, the parameters      *)
(* without a default, and what the body does with iterable_input.          *)
(***************************************************************************)
\* def make_named_tuple(iterable_input, attribute_names=None,
\*                      auto_attribute_names=False): tuple(iterable_input),
\* graceful_exit on a TypeError
make_named_tuple ==
    [name |-> "make_named_tuple",
     parameters |-> <<"iterable_input", "attribute_names", "auto_attribute_names">>,
     required |-> {"iterable_input"},
     body |-> "tuple or graceful_exit"]

\* def my_function(iterable_input): return iterable_input
my_function_prompt ==
    [name |-> "my_function",
     parameters |-> <<"iterable_input">>,
     required |-> {"iterable_input"},
     body |-> "iterable_input"]

\* def my_function(iterable_input, attribute_names): return iterable_input
my_function_names ==
    [name |-> "my_function",
     parameters |-> <<"iterable_input", "attribute_names">>,
     required |-> {"iterable_input", "attribute_names"},
     body |-> "iterable_input"]

\* def my_function(iterable_input, auto_attribute_names):
\*     return iterable_input
my_function_auto ==
    [name |-> "my_function",
     parameters |-> <<"iterable_input", "auto_attribute_names">>,
     required |-> {"iterable_input", "auto_attribute_names"},
     body |-> "iterable_input"]

\* def custom_function(iterable_input, auto_attribute_names):
\*     return tuple(iter_input), iter_input being the argument of the call
custom_function ==
    [name |-> "custom_function",
     parameters |-> <<"iterable_input", "auto_attribute_names">>,
     required |-> {"iterable_input", "auto_attribute_names"},
     body |-> "tuple"]

Functions ==
    {make_named_tuple, my_function_prompt, my_function_names,
     my_function_auto, custom_function}

\* the keywords of a call
Keywords(kw) ==
    {k \in {"iterable_input", "attribute_names", "auto_attribute_names"} :
        \/ k = "iterable_input" /\ kw.iterable_input.given
        \/ k = "attribute_names" /\ kw.attribute_names.given
        \/ k = "auto_attribute_names" /\ kw.auto_attribute_names # "absent"}

\* the parameters of f the positional arguments a are bound to
Positionals(f, a) ==
    {f.parameters[k] : k \in 1..(IF Len(a) < Len(f.parameters)
                                 THEN Len(a) ELSE Len(f.parameters))}

\* the TypeError of the call of f with a and kw, "none" when the arguments
\* can be bound to the parameters of f
BindingError(f, a, kw) ==
    LET declared == {f.parameters[k] : k \in 1..Len(f.parameters)}
    IN  IF Len(a) > Len(f.parameters)
        THEN "takes fewer positional arguments"
        ELSE IF Keywords(kw) \ declared # {}
        THEN "got an unexpected keyword argument"
        ELSE IF Keywords(kw) \cap Positionals(f, a) # {}
        THEN "got multiple values for argument"
        ELSE IF f.required \ (Keywords(kw) \cup Positionals(f, a)) # {}
        THEN "missing required argument"
        ELSE "none"

\* every wrapped function declares its parameters by name and rejects a
\* keyword it does not declare; one that took any keyword would not
AcceptsAnyKeyword(f, a, kw) == "none"

CallError(f, a, kw) == BindingError(f, a, kw)

\* the value bound to the parameter iterable_input, first in every function
BoundIterable(a, kw) == IF a # <<>> THEN a[1] ELSE kw.iterable_input

(***************************************************************************)
(* State.                                                                  *)
(***************************************************************************)
VARIABLES
    pc,               \* where the program is
    caller,           \* who called validate_attribute_input
    kwargs,           \* keyword arguments of the call of the wrapper
    iterable_input,   \* what the decorated function returned
    attribute_names,  \* the list of names, mutated in place
    index,            \* loop index of convert_to_namedtuple
    v_index,          \* loop index of validate_attribute_input
    prompts,          \* the calls of input() so far, each with its return
    raw_names,        \* attribute_names as validate_attribute_input got it
    returned,         \* the lists validate_attribute_input returned so far
    result,           \* what the call of the wrapper returned or raised
    process,          \* the Python process: running or exited
    function,         \* the function named_tuple_converter decorates
    args,             \* positional arguments of the call of the wrapper
    function_calls,   \* the calls of function so far, with their arguments
    not_iterable,     \* iterable_input is an object that is not iterable
    names_shared,     \* attribute_names is the list object the caller passed
    exit_calls,       \* the calls of graceful_exit so far
    output,           \* what was written to stdout, stderr and the log file
    log_call,         \* the arguments of the call of initialize_logging
    log_level,        \* the level initialize_logging resolved
    handlers,         \* the stack of logbook handlers of the application
    log_records       \* the records logged so far, each with its handler

wrapped_vars ==
    <<function, args, function_calls, not_iterable, names_shared>>

exit_vars == <<exit_calls, output>>

log_vars == <<log_call, log_level, handlers, log_records>>

convert_vars ==
    <<caller, kwargs, iterable_input, attribute_names, index, v_index,
      prompts, raw_names, returned, result>>

vars == <<pc, convert_vars, process, wrapped_vars, exit_vars, log_vars>>

NoResult ==
    [kind |-> "none", fields |-> <<>>, values |-> <<>>, message |-> "none",
     iterable_input_length |-> 0, attribute_names_length |-> 0]

Running == [state |-> "running", status |-> 0]

NoKeywords ==
    [iterable_input |-> NoArgument, attribute_names |-> NoAttributeNames,
     auto_attribute_names |-> "absent"]

\* initialize_logging is not called
NoLogCall ==
    [log_level |-> [is_none |-> TRUE, text |-> <<>>], log_file |-> "none",
     log_to_console |-> FALSE]

\* the module is imported and named_tuple_converter is about to decorate
\* function
Init ==
    /\ pc = "decorate"
    /\ caller = "none"
    /\ kwargs = NoKeywords
    /\ iterable_input = <<>>
    /\ attribute_names = <<>>
    /\ index = 0
    /\ v_index = 0
    /\ prompts = <<>>
    /\ raw_names = <<>>
    /\ returned = <<>>
    /\ result = NoResult
    /\ process = Running
    /\ function \in Functions
    /\ args = <<>>
    /\ function_calls = <<>>
    /\ not_iterable = FALSE
    /\ names_shared = FALSE
    /\ exit_calls = <<>>
    /\ output = <<>>
    /\ log_call = NoLogCall
    /\ log_level = <<>>
    /\ handlers = <<>>
    /\ log_records = <<>>

\* validate_attribute_input called directly with a list of strings
InitValidate ==
    /\ pc = "validate"
    /\ caller = "direct"
    /\ kwargs = NoKeywords
    /\ iterable_input = <<>>
    /\ attribute_names \in ValidateInputs
    /\ index = 0
    /\ v_index = 0
    /\ prompts = <<>>
    /\ raw_names = attribute_names
    /\ returned = <<>>
    /\ result = NoResult
    /\ process = Running
    /\ function = make_named_tuple
    /\ args = <<>>
    /\ function_calls = <<>>
    /\ not_iterable = FALSE
    /\ names_shared = FALSE
    /\ exit_calls = <<>>
    /\ output = <<>>
    /\ log_call = NoLogCall
    /\ log_level = <<>>
    /\ handlers = <<>>
    /\ log_records = <<>>

(***************************************************************************)
(* named_tuple_converter(function) and the call of the wrapper             *)
(***************************************************************************)
\* @named_tuple_converter: the wrapper convert_to_namedtuple is defined and
\* returned; function is not called
NamedTupleConverter ==
    /\ pc = "decorate"
    /\ pc' = "idle"
    /\ UNCHANGED <<convert_vars, process, wrapped_vars, exit_vars, log_vars>>

\* the caller calls the wrapper with its positional and keyword arguments
ConvertToNamedTuple(iterable_argument, passing, names_argument, auto_argument) ==
    /\ pc = "idle"
    /\ process.state = "running"
    /\ args' = IF passing = "positional" THEN <<iterable_argument>> ELSE <<>>
    /\ kwargs' = [iterable_input |-> IF passing = "keyword"
                                     THEN iterable_argument ELSE NoArgument,
                  attribute_names |-> names_argument,
                  auto_attribute_names |-> auto_argument]
    /\ pc' = "call"
    /\ UNCHANGED <<caller, iterable_input, attribute_names, index, v_index,
                   prompts, raw_names, returned, result, process, function,
                   function_calls, not_iterable, names_shared, exit_vars,
                   log_vars>>

\* the arguments function is called with: those of the wrapper
Forwarded(a, kw) == [args |-> a, kwargs |-> kw]

\* the keywords the wrapper reads are taken out of those passed on
WithoutWrapperKeywords(a, kw) ==
    [args |-> a,
     kwargs |-> [kw EXCEPT !.attribute_names = NoAttributeNames,
                           !.auto_attribute_names = "absent"]]

FunctionArguments(a, kw) == Forwarded(a, kw)

\* tuple(iterable_input) raises a TypeError
TupleTypeError(argument) == ~argument.iterable

\* tuple(iterable_input) raises for an iterable and not for another object
TupleTypeErrorInverted(argument) == argument.iterable

TupleFails(argument) == TupleTypeError(argument)

\* iterable_input = function(args, kwargs), the arguments unpacked: function
\* returns
CallFunction ==
    /\ pc = "call"
    /\ CallError(function, args, kwargs) = "none"
    /\ \/ function.body = "iterable_input"
       \/ ~TupleFails(BoundIterable(args, kwargs))
    /\ function_calls' = Append(function_calls, FunctionArguments(args, kwargs))
    /\ iterable_input' = BoundIterable(args, kwargs).items
    /\ not_iterable' = ~BoundIterable(args, kwargs).iterable
    /\ pc' = "resolve"
    /\ UNCHANGED <<caller, kwargs, attribute_names, index, v_index, prompts,
                   raw_names, returned, result, process, function, args,
                   names_shared, exit_vars, log_vars>>

\* the call of function raises a TypeError: the arguments do not fit its
\* parameters, or its body calls tuple() without a try on an object that is
\* not iterable
CallFunctionTypeError ==
    /\ pc = "call"
    /\ \/ CallError(function, args, kwargs) # "none"
       \/ /\ function.body = "tuple"
          /\ TupleFails(BoundIterable(args, kwargs))
    /\ function_calls' = Append(function_calls, FunctionArguments(args, kwargs))
    /\ result' = [NoResult EXCEPT
                    !.kind = "TypeError",
                    !.message = IF CallError(function, args, kwargs) # "none"
                                THEN CallError(function, args, kwargs)
                                ELSE "object is not iterable"]
    /\ pc' = "raised"
    /\ UNCHANGED <<caller, kwargs, iterable_input, attribute_names, index,
                   v_index, prompts, raw_names, returned, process, function,
                   args, not_iterable, names_shared, exit_vars, log_vars>>

\* make_named_tuple is called with an iterable_input that tuple() cannot
\* convert: the TypeError is caught and graceful_exit is called with the
\* error message and the TypeError
CallFunctionNotIterable ==
    /\ pc = "call"
    /\ CallError(function, args, kwargs) = "none"
    /\ function.body = "tuple or graceful_exit"
    /\ TupleFails(BoundIterable(args, kwargs))
    /\ function_calls' = Append(function_calls, FunctionArguments(args, kwargs))
    /\ exit_calls' = Append(exit_calls,
            [error_message |-> "Unable to convert iterable_input value to a tuple object",
             error_object |-> "TypeError"])
    /\ pc' = "graceful_exit"
    /\ UNCHANGED <<convert_vars, process, function, args, not_iterable,
                   names_shared,
                   output, log_vars>>

(***************************************************************************)
(* graceful_exit(error_message, error_object)                              *)
(***************************************************************************)
\* the arguments of the call of graceful_exit in progress
ExitCall == exit_calls[Len(exit_calls)]

\* the text of the error, as str() gives it
Str(error_object) == [str |-> error_object]

\* the text of the error, as repr() gives it
Repr(error_object) == [repr |-> error_object]

\* f'{error_object!r}'
ErrorObjectText(error_object) == Repr(error_object)

\* if error_message is not None: print(error_message)
PrintErrorMessage ==
    /\ pc = "graceful_exit"
    /\ output' = IF ExitCall.error_message # "None"
                 THEN Append(output, [stream |-> "stdout",
                                      text |-> ExitCall.error_message])
                 ELSE output
    /\ pc' = "print error_object"
    /\ UNCHANGED <<convert_vars, process, wrapped_vars, exit_calls, log_vars>>

\* if error_object is not None: print(repr of error_object, file=stderr)
PrintErrorObject ==
    /\ pc = "print error_object"
    /\ output' = IF ExitCall.error_object # "None"
                 THEN Append(output, [stream |-> "stderr",
                                      text |-> ErrorObjectText(ExitCall.error_object)])
                 ELSE output
    /\ pc' = "exit"
    /\ UNCHANGED <<convert_vars, process, wrapped_vars, exit_calls, log_vars>>

\* try: exit(1), which raises SystemExit
SysExit ==
    /\ pc = "exit"
    /\ pc' = "except SystemExit"
    /\ UNCHANGED <<convert_vars, process, wrapped_vars, exit_vars, log_vars>>

\* the SystemExit goes on to the caller and the process keeps running
SystemExitPropagates(p) == p

\* _exit(1) ends the process at once with status 1
Exited(p) == [p EXCEPT !.state = "exited", !.status = 1]

\* except SystemExit: _exit(1)
OsExit ==
    /\ pc = "except SystemExit"
    /\ process' = Exited(process)
    /\ pc' = "exited"
    /\ UNCHANGED <<convert_vars, wrapped_vars, exit_vars, log_vars>>

(***************************************************************************)
(* convert_to_namedtuple, up to the validation                             *)
(***************************************************************************)
\* list(kwargs.get('attribute_names'))
ListOfNames(names_argument) == names_argument.items

\* the names without those that repeat an earlier one
WithoutRepeats(names_argument) ==
    LET RECURSIVE keep(_)
        keep(k) == IF k = 0 THEN <<>>
                   ELSE IF \E j \in 1..(k - 1) :
                              names_argument.items[j] = names_argument.items[k]
                        THEN keep(k - 1)
                        ELSE Append(keep(k - 1), names_argument.items[k])
    IN  keep(Len(names_argument.items))

CandidateNames(names_argument) == ListOfNames(names_argument)

\* the argument is not None
IsNotNone(names_argument) == ~names_argument.is_none

\* the argument is true in a condition: neither None nor empty
IsTrue(names_argument) ==
    ~names_argument.is_none /\ names_argument.items # <<>>

\* kwargs.get('attribute_names') is not None
AttributeNamesFound(names_argument) == IsNotNone(names_argument)

\* the names are bound to the object of the argument itself
SameObject(names_argument) == TRUE

\* list(...) makes a new list object
NewObject(names_argument) == FALSE

\* the list of the names is the object the caller passed
SharedWithCaller(names_argument) == NewObject(names_argument)

\* if kwargs.get('attribute_names') is not None: the list of the names
UseAttributeNames ==
    /\ pc = "resolve"
    /\ AttributeNamesFound(kwargs.attribute_names)
    /\ attribute_names' = CandidateNames(kwargs.attribute_names)
    /\ names_shared' = SharedWithCaller(kwargs.attribute_names)
    /\ pc' = "sanitize"
    /\ UNCHANGED <<caller, kwargs, iterable_input, index, v_index, prompts,
                   raw_names, returned, result, process>>
    /\ UNCHANGED <<function, args, function_calls, not_iterable, exit_vars,
                   log_vars>>

\* else: attribute_names = [] and the loop over iterable_input starts
CollectAttributeNames ==
    /\ pc = "resolve"
    /\ ~AttributeNamesFound(kwargs.attribute_names)
    /\ attribute_names' = <<>>
    /\ index' = 0
    /\ pc' = "collect"
    /\ UNCHANGED <<caller, kwargs, iterable_input, v_index, prompts,
                   raw_names, returned, result, process>>
    /\ UNCHANGED <<wrapped_vars, exit_vars, log_vars>>

\* enumerate(iterable_input) raises a TypeError: the object is not iterable
EnumerateTypeError ==
    /\ pc = "collect"
    /\ not_iterable
    /\ result' = [NoResult EXCEPT !.kind = "TypeError",
                                  !.message = "object is not iterable"]
    /\ pc' = "raised"
    /\ UNCHANGED <<caller, kwargs, iterable_input, attribute_names, index,
                   v_index, prompts, raw_names, returned, process>>
    /\ UNCHANGED <<wrapped_vars, exit_vars, log_vars>>

\* the text input() is called with, for one value
PromptFor(value) ==
    [text |-> "Enter an attribute name for the value", value |-> value]

\* the prompt for the value at position i (0-based) of the iterable
PromptAt(i) == PromptFor(iterable_input[i + 1])

\* the prompt always shows the first value
PromptFirstValue(i) == PromptFor(iterable_input[1])

PromptText(i) == PromptAt(i)

\* the loop stops before the last value
ValuesLeftButLast(i, values) == i + 1 < Len(values)

\* for index, value in enumerate(iterable_input): there is a value for
\* one more iteration
ValuesLeft(i, values) == i < Len(values)

\* one iteration with auto_attribute_names is True: a blank name
AutoNameAttribute ==
    /\ pc = "collect"
    /\ ~not_iterable
    /\ ValuesLeft(index, iterable_input)
    /\ kwargs.auto_attribute_names = "True"
    /\ attribute_names' = Append(attribute_names, <<>>)
    /\ index' = index + 1
    /\ UNCHANGED <<pc, caller, kwargs, iterable_input, v_index, prompts,
                   raw_names, returned, result, process>>
    /\ UNCHANGED <<wrapped_vars, exit_vars, log_vars>>

\* one iteration otherwise: the name is what input() returns
PromptAttributeName(response) ==
    /\ pc = "collect"
    /\ ~not_iterable
    /\ ValuesLeft(index, iterable_input)
    /\ kwargs.auto_attribute_names # "True"
    /\ prompts' = Append(prompts, [prompt |-> PromptText(index),
                                    response |-> response])
    /\ attribute_names' = Append(attribute_names, response)
    /\ index' = index + 1
    /\ UNCHANGED <<pc, caller, kwargs, iterable_input, v_index,
                   raw_names, returned, result, process>>
    /\ UNCHANGED <<wrapped_vars, exit_vars, log_vars>>

\* the loop over iterable_input ends
CollectDone ==
    /\ pc = "collect"
    /\ ~not_iterable
    /\ ~ValuesLeft(index, iterable_input)
    /\ pc' = "sanitize"
    /\ UNCHANGED <<caller, kwargs, iterable_input, attribute_names, index,
                   v_index, prompts, raw_names, returned, result, process>>
    /\ UNCHANGED <<wrapped_vars, exit_vars, log_vars>>

\* attribute_names = validate_attribute_input(attribute_names=attribute_names)
CallValidate ==
    /\ pc = "sanitize"
    /\ caller' = "convert_to_namedtuple"
    /\ raw_names' = attribute_names
    /\ v_index' = 0
    /\ pc' = "validate"
    /\ UNCHANGED <<kwargs, iterable_input, attribute_names, index, prompts,
                   returned, result, process>>
    /\ UNCHANGED <<wrapped_vars, exit_vars, log_vars>>

(***************************************************************************)
(* validate_attribute_input(attribute_names)                               *)
(***************************************************************************)
\* the list after the iteration for position i (0-based)
ValidatedAt(names, i) == [names EXCEPT ![i + 1] = ValidateName(@, i)]

\* the iteration numbers the attribute from 1
ValidatedAtOneBased(names, i) == [names EXCEPT ![i + 1] = ValidateName(@, i + 1)]

\* the iteration leaves the name as it is
NotValidatedAt(names, i) == names

LoopBody(names, i) == ValidatedAt(names, i)

\* one iteration of for index, _ in enumerate(attribute_names): the item
\* of the list is assigned in place, which the caller sees in its own list
\* when it is the same object
ValidateAttribute ==
    /\ pc = "validate"
    /\ v_index < Len(attribute_names)
    /\ attribute_names' = LoopBody(attribute_names, v_index)
    /\ kwargs' = IF names_shared
                 THEN [kwargs EXCEPT !.attribute_names.items =
                                         LoopBody(attribute_names, v_index)]
                 ELSE kwargs
    /\ v_index' = v_index + 1
    /\ UNCHANGED <<pc, caller, iterable_input, index, prompts,
                   raw_names, returned, result, process>>
    /\ UNCHANGED <<wrapped_vars, exit_vars, log_vars>>

\* return attribute_names
ValidateReturn ==
    /\ pc = "validate"
    /\ v_index = Len(attribute_names)
    /\ returned' = Append(returned, attribute_names)
    /\ pc' = IF caller = "convert_to_namedtuple" THEN "arity" ELSE "validated"
    /\ UNCHANGED <<caller, kwargs, iterable_input, attribute_names, index,
                   v_index, prompts, raw_names, result, process>>
    /\ UNCHANGED <<wrapped_vars, exit_vars, log_vars>>

\* a direct caller passes the returned list to validate_attribute_input again
ValidateAgain ==
    /\ pc = "validated"
    /\ Len(returned) < MaxCalls
    /\ raw_names' = attribute_names
    /\ v_index' = 0
    /\ pc' = "validate"
    /\ UNCHANGED <<caller, kwargs, iterable_input, attribute_names, index,
                   prompts, returned, result, process>>
    /\ UNCHANGED <<wrapped_vars, exit_vars, log_vars>>

(***************************************************************************)
(* convert_to_namedtuple, after the validation                             *)
(***************************************************************************)
\* len(iterable_input) raises a TypeError: the object has no length
LenTypeError ==
    /\ pc = "arity"
    /\ not_iterable
    /\ result' = [NoResult EXCEPT !.kind = "TypeError",
                                  !.message = "object has no len()"]
    /\ pc' = "raised"
    /\ UNCHANGED <<caller, kwargs, iterable_input, attribute_names, index,
                   v_index, prompts, raw_names, returned, process>>
    /\ UNCHANGED <<wrapped_vars, exit_vars, log_vars>>

\* len(iterable_input) == len(attribute_names)
SameLength(values, names) == Len(values) = Len(names)

\* a check that lets fewer values than names pass
NoMoreValuesThanNames(values, names) == Len(values) <= Len(names)

ArityCheck(values, names) == SameLength(values, names)

\* the NamedTuple is made of the values in the order of the iterable
PositionalValues(values) == values

\* the values in reverse order
ReversedValues(values) == [k \in 1..Len(values) |-> values[Len(values) + 1 - k]]

FieldValues(values) == PositionalValues(values)

\* the NamedTuple class is created, then its instance named_tuple
CreateNamedTuple ==
    /\ pc = "arity"
    /\ ~not_iterable
    /\ ArityCheck(iterable_input, attribute_names)
    /\ IF NamedTupleError(attribute_names) = "none"
       THEN /\ result' = [NoResult EXCEPT !.kind = "NamedTuple",
                                          !.fields = attribute_names,
                                          !.values = FieldValues(iterable_input)]
            /\ pc' = "created"
       ELSE /\ result' = [NoResult EXCEPT !.kind = "ValueError",
                                          !.message = NamedTupleError(attribute_names)]
            /\ pc' = "raised"
    /\ UNCHANGED <<caller, kwargs, iterable_input, attribute_names, index,
                   v_index, prompts, raw_names, returned, process>>
    /\ UNCHANGED <<wrapped_vars, exit_vars, log_vars>>

\* raise ValueError('Length of iterable_input and attribute_names must be
\* equal: ...') with both lengths
RaiseValueError ==
    /\ pc = "arity"
    /\ ~not_iterable
    /\ ~ArityCheck(iterable_input, attribute_names)
    /\ result' = [NoResult EXCEPT
                    !.kind = "ValueError",
                    !.message = "Length of iterable_input and attribute_names must be equal",
                    !.iterable_input_length = Len(iterable_input),
                    !.attribute_names_length = Len(attribute_names)]
    /\ pc' = "raised"
    /\ UNCHANGED <<caller, kwargs, iterable_input, attribute_names, index,
                   v_index, prompts, raw_names, returned, process>>
    /\ UNCHANGED <<wrapped_vars, exit_vars, log_vars>>

\* return named_tuple
ReturnNamedTuple ==
    /\ pc = "created"
    /\ pc' = "returned"
    /\ UNCHANGED <<caller, kwargs, iterable_input, attribute_names, index,
                   v_index, prompts, raw_names, returned, result, process>>
    /\ UNCHANGED <<wrapped_vars, exit_vars, log_vars>>

(***************************************************************************)
(* Specifications.                                                         *)
(***************************************************************************)
Call ==
    /\ pc = "idle"
    /\ \E iterable_argument \in IterableArguments,
          passing \in Passings,
          names_argument \in AttributeNamesArguments,
          auto_argument \in AutoAttributeNamesArguments :
           ConvertToNamedTuple(iterable_argument, passing, names_argument,
                               auto_argument)

Prompt ==
    /\ pc = "collect"
    /\ \E response \in NamePool : PromptAttributeName(response)

Next ==
    \/ NamedTupleConverter
    \/ Call
    \/ CallFunction
    \/ CallFunctionTypeError
    \/ CallFunctionNotIterable
    \/ PrintErrorMessage
    \/ PrintErrorObject
    \/ SysExit
    \/ OsExit
    \/ UseAttributeNames
    \/ CollectAttributeNames
    \/ EnumerateTypeError
    \/ AutoNameAttribute
    \/ Prompt
    \/ CollectDone
    \/ CallValidate
    \/ ValidateAttribute
    \/ ValidateReturn
    \/ LenTypeError
    \/ CreateNamedTuple
    \/ RaiseValueError
    \/ ReturnNamedTuple

Spec == Init /\ [][Next]_vars

\* validate_attribute_input on its own, called once or more on a list
NextValidate ==
    \/ ValidateAttribute
    \/ ValidateReturn
    \/ ValidateAgain

SpecValidate == InitValidate /\ [][NextValidate]_vars

(***************************************************************************)
(* Logging: the level names, as sequences of characters.                   *)
(***************************************************************************)
UpperCaseLetters ==
    <<"A", "B", "C", "D", "E", "F", "G", "H", "I", "J", "K", "L", "M", "N",
      "O", "P", "Q", "R", "S", "T", "U", "V", "W", "X", "Y", "Z">>

LowerCaseLetters ==
    <<"a", "b", "c", "d", "e", "f", "g", "h", "i", "j", "k", "l", "m", "n",
      "o", "p", "q", "r", "s", "t", "u", "v", "w", "x", "y", "z">>

\* str.upper() and str.lower(), for one character and for a string
UpperCharacter(c) ==
    IF \E k \in DOMAIN LowerCaseLetters : LowerCaseLetters[k] = c
    THEN UpperCaseLetters[CHOOSE k \in DOMAIN LowerCaseLetters :
                                LowerCaseLetters[k] = c]
    ELSE c

LowerCharacter(c) ==
    IF \E k \in DOMAIN UpperCaseLetters : UpperCaseLetters[k] = c
    THEN LowerCaseLetters[CHOOSE k \in DOMAIN UpperCaseLetters :
                                UpperCaseLetters[k] = c]
    ELSE c

Upper(s) == [k \in 1..Len(s) |-> UpperCharacter(s[k])]

Lower(s) == [k \in 1..Len(s) |-> LowerCharacter(s[k])]

\* str.capitalize()
Capitalize(s) ==
    [k \in 1..Len(s) |-> IF k = 1 THEN UpperCharacter(s[k])
                                  ELSE LowerCharacter(s[k])]

\* the level names of LOG_LEVELS
CRITICAL == <<"C", "R", "I", "T", "I", "C", "A", "L">>

ERROR == <<"E", "R", "R", "O", "R">>

WARNING == <<"W", "A", "R", "N", "I", "N", "G">>

NOTICE == <<"N", "O", "T", "I", "C", "E">>

INFO == <<"I", "N", "F", "O">>

DEBUG == <<"D", "E", "B", "U", "G">>

TRACE == <<"T", "R", "A", "C", "E">>

NOTSET == <<"N", "O", "T", "S", "E", "T">>

\* level names of the module docstring that LOG_LEVELS does not have
FATAL == <<"F", "A", "T", "A", "L">>

WARN == <<"W", "A", "R", "N">>

\* a name that is no level anywhere
VERBOSE == <<"V", "E", "R", "B", "O", "S", "E">>

LOG_LEVEL_DEFAULT == CRITICAL

LOG_LEVELS ==
    <<CRITICAL, ERROR, WARNING, NOTICE, INFO, DEBUG, TRACE, NOTSET>>

\* log_level.upper().strip()
NormalizedLevel(text) == Strip(Upper(text))

\* the name is in LOG_LEVELS
InLogLevels(name) == \E k \in DOMAIN LOG_LEVELS : LOG_LEVELS[k] = name

\* getattr(logbook, name): the number logbook gives the level
LogbookLevel(name) ==
    CASE name = CRITICAL -> 15
      [] name = ERROR -> 14
      [] name = WARNING -> 13
      [] name = NOTICE -> 12
      [] name = INFO -> 11
      [] name = DEBUG -> 10
      [] name = TRACE -> 9
      [] OTHER -> 0

\* the log file of the module, and a path in a directory that does not exist
LogFiles == {"LOG_FILE", "LOG_FILE_INVALID"}

\* the spellings of a level name callers pass
Spellings(name) ==
    {name, Lower(name), Capitalize(name), <<" ">> \o Lower(name) \o <<"\t">>}

\* the values of the argument log_level: None, or a string
NoLogLevel == [is_none |-> TRUE, text |-> <<>>]

LogLevelArguments ==
    {NoLogLevel} \cup
    {[is_none |-> FALSE, text |-> text] :
        text \in UNION {Spellings(name) :
            name \in {FATAL, ERROR, CRITICAL, WARN, WARNING, INFO, NOTICE,
                      DEBUG, TRACE, NOTSET, VERBOSE, <<>>}}}

\* logbook.TimedRotatingFileHandler(level=log_level, filename=log_file)
TimedRotatingFileHandler(level) ==
    [kind |-> "TimedRotatingFileHandler", target |-> "file", level |-> level]

\* a stream handler on stderr
StderrHandler(level) ==
    [kind |-> "StreamHandler", target |-> "stderr", level |-> level]

\* logbook.StreamHandler(stream=stdout, level=log_level)
StreamHandler(level) ==
    [kind |-> "StreamHandler", target |-> "stdout", level |-> level]

ConsoleHandler(level) == StreamHandler(level)

\* the stack when initialize_logging is called: empty, or with the handler
\* the import of namedtuple_maker pushed without LOG_LEVEL and
\* LOG_TO_CONSOLE in the environment
ImportHandlers == {<<>>, <<TimedRotatingFileHandler(LOG_LEVEL_DEFAULT)>>}

\* the levels a logbook.Logger logs at
LoggerLevels == {CRITICAL, ERROR, WARNING, NOTICE, INFO, DEBUG, TRACE}

\* the handler of the stack hs that takes a record of this level: the
\* topmost whose level is not above the record's, 0 when there is none
HandlerOf(hs, level) ==
    LET accepting == {k \in 1..Len(hs) :
                         LogbookLevel(level) >= LogbookLevel(hs[k].level)}
    IN  IF accepting = {} THEN 0
        ELSE CHOOSE k \in accepting : \A j \in accepting : j <= k

\* a record of a logger
LogRecord(logger, level, message) ==
    [logger |-> logger, level |-> level, message |-> message]

\* the records so far and the one a logger emits now, with its handler
Emitted(records, hs, record) ==
    Append(records, [record |-> record, handler |-> HandlerOf(hs, record.level)])

\* the output after the handler of the record, if any, has written it
Written(out, hs, record) ==
    IF HandlerOf(hs, record.level) = 0 THEN out
    ELSE Append(out, [stream |-> hs[HandlerOf(hs, record.level)].target,
                      text |-> record])

(***************************************************************************)
(* initialize_logging(log_level, log_file, log_to_console)                 *)
(***************************************************************************)
\* initialize_logging is called
InitLogging ==
    /\ pc = "initialize_logging"
    /\ caller = "none"
    /\ kwargs = NoKeywords
    /\ iterable_input = <<>>
    /\ attribute_names = <<>>
    /\ index = 0
    /\ v_index = 0
    /\ prompts = <<>>
    /\ raw_names = <<>>
    /\ returned = <<>>
    /\ result = NoResult
    /\ process = Running
    /\ function = make_named_tuple
    /\ args = <<>>
    /\ function_calls = <<>>
    /\ not_iterable = FALSE
    /\ names_shared = FALSE
    /\ exit_calls = <<>>
    /\ output = <<>>
    /\ log_call \in [log_level : LogLevelArguments, log_file : LogFiles,
                     log_to_console : BOOLEAN]
    /\ log_level = <<>>
    /\ handlers \in ImportHandlers
    /\ log_records = <<>>

\* graceful_exit is called, with or without each of its arguments
InitGracefulExit ==
    /\ pc = "graceful_exit"
    /\ caller = "none"
    /\ kwargs = NoKeywords
    /\ iterable_input = <<>>
    /\ attribute_names = <<>>
    /\ index = 0
    /\ v_index = 0
    /\ prompts = <<>>
    /\ raw_names = <<>>
    /\ returned = <<>>
    /\ result = NoResult
    /\ process = Running
    /\ function = make_named_tuple
    /\ args = <<>>
    /\ function_calls = <<>>
    /\ not_iterable = FALSE
    /\ names_shared = FALSE
    /\ exit_calls \in
          {<<call>> : call \in
              [error_message : {"None",
                                "Unable to convert iterable_input value to a tuple object",
                                "The specified logging level is invalid"},
               error_object : {"None", "TypeError", "FileNotFoundError"}]}
    /\ output = <<>>
    /\ log_call = NoLogCall
    /\ log_level = <<>>
    /\ handlers = <<>>
    /\ log_records = <<>>

\* if log_level is None: log_level = getattr(logbook, LOG_LEVEL_DEFAULT)
DefaultLogLevel ==
    /\ pc = "initialize_logging"
    /\ log_call.log_level.is_none
    /\ log_level' = LOG_LEVEL_DEFAULT
    /\ pc' = "print level"
    /\ UNCHANGED <<convert_vars, process, wrapped_vars, exit_vars, log_call,
                   handlers, log_records>>

\* log_level.upper().strip() not in LOG_LEVELS: graceful_exit with the
\* error message
InvalidLogLevel ==
    /\ pc = "initialize_logging"
    /\ ~log_call.log_level.is_none
    /\ ~InLogLevels(NormalizedLevel(log_call.log_level.text))
    /\ exit_calls' = Append(exit_calls,
            [error_message |-> "The specified logging level is invalid",
             error_object |-> "None"])
    /\ pc' = "graceful_exit"
    /\ UNCHANGED <<convert_vars, process, wrapped_vars, output, log_vars>>

\* else: log_level = getattr(logbook, log_level.upper().strip())
SetLogLevel ==
    /\ pc = "initialize_logging"
    /\ ~log_call.log_level.is_none
    /\ InLogLevels(NormalizedLevel(log_call.log_level.text))
    /\ log_level' = NormalizedLevel(log_call.log_level.text)
    /\ pc' = "print level"
    /\ UNCHANGED <<convert_vars, process, wrapped_vars, exit_vars, log_call,
                   handlers, log_records>>

\* print('** Logging level set to ... **') between two borders
PrintLogLevel ==
    /\ pc = "print level"
    /\ output' = Append(output, [stream |-> "stdout",
                                 text |-> [logging_level_set_to |-> log_level]])
    /\ pc' = "push handler"
    /\ UNCHANGED <<convert_vars, process, wrapped_vars, exit_calls, log_vars>>

\* if log_to_console is False: the file handler is pushed and the
\* initializer logs the path of the file
PushFileHandler ==
    /\ pc = "push handler"
    /\ ~log_call.log_to_console
    /\ log_call.log_file = "LOG_FILE"
    /\ LET hs == Append(handlers, TimedRotatingFileHandler(log_level))
           record == LogRecord("Logging Initializer", INFO,
                               "Log file path and root name")
       IN  /\ handlers' = hs
           /\ log_records' = Emitted(log_records, hs, record)
           /\ output' = Written(output, hs, record)
    /\ pc' = "started"
    /\ UNCHANGED <<convert_vars, process, wrapped_vars, exit_calls, log_call,
                   log_level>>

\* except FileNotFoundError as error: graceful_exit(error_object=error)
LogFileNotFound ==
    /\ pc = "push handler"
    /\ ~log_call.log_to_console
    /\ log_call.log_file = "LOG_FILE_INVALID"
    /\ exit_calls' = Append(exit_calls,
            [error_message |-> "None", error_object |-> "FileNotFoundError"])
    /\ pc' = "graceful_exit"
    /\ UNCHANGED <<convert_vars, process, wrapped_vars, output, log_vars>>

\* else: the console handler is pushed and the initializer logs it
PushStreamHandler ==
    /\ pc = "push handler"
    /\ log_call.log_to_console
    /\ LET hs == Append(handlers, ConsoleHandler(log_level))
           record == LogRecord("Logging Initializer", INFO,
                               "Initialized logging to console.")
       IN  /\ handlers' = hs
           /\ log_records' = Emitted(log_records, hs, record)
           /\ output' = Written(output, hs, record)
    /\ pc' = "started"
    /\ UNCHANGED <<convert_vars, process, wrapped_vars, exit_calls, log_call,
                   log_level>>

\* log_init_log.info('Started ... level logging.'); return None
LogStarted ==
    /\ pc = "started"
    /\ LET record == LogRecord("Logging Initializer", INFO,
                               "Started level logging.")
       IN  /\ log_records' = Emitted(log_records, handlers, record)
           /\ output' = Written(output, handlers, record)
    /\ pc' = "initialized"
    /\ UNCHANGED <<convert_vars, process, wrapped_vars, exit_calls, log_call,
                   log_level, handlers>>

\* the records of the log the caller made after initialize_logging returned
CallerRecords ==
    {k \in 1..Len(log_records) :
        log_records[k].record.logger = "Initialization Log"}

\* after initialize_logging returned, a logbook.Logger of the caller logs a
\* message at some level
LogMessage(level) ==
    /\ pc = "initialized"
    /\ Cardinality(CallerRecords) < MaxMessages
    /\ LET record == LogRecord("Initialization Log", level,
                               "This is a log entry.")
       IN  /\ log_records' = Emitted(log_records, handlers, record)
           /\ output' = Written(output, handlers, record)
    /\ UNCHANGED <<pc, convert_vars, process, wrapped_vars, exit_calls,
                   log_call, log_level, handlers>>

Log ==
    /\ pc = "initialized"
    /\ \E level \in LoggerLevels : LogMessage(level)

NextLogging ==
    \/ DefaultLogLevel
    \/ InvalidLogLevel
    \/ SetLogLevel
    \/ PrintLogLevel
    \/ PushFileHandler
    \/ LogFileNotFound
    \/ PushStreamHandler
    \/ LogStarted
    \/ Log
    \/ PrintErrorMessage
    \/ PrintErrorObject
    \/ SysExit
    \/ OsExit

\* initialize_logging, and graceful_exit in it or on its own
SpecLogging == (InitLogging \/ InitGracefulExit) /\ [][NextLogging]_vars

(***************************************************************************)
(* Properties of convert_to_namedtuple.                                    *)
(***************************************************************************)
\* the decorated function was called and returned an iterable of values
ValuesReturned ==
    /\ pc \in {"resolve", "collect", "sanitize", "validate", "arity",
               "created", "returned", "raised"}
    /\ ~not_iterable
    /\ result.kind # "TypeError"

\* the call of the wrapper is over, and its function returned an iterable
CallOver == pc \in {"returned", "raised"} /\ ValuesReturned

\* the attribute_names keyword argument was supplied (and is not None)
NamesSupplied == ~kwargs.attribute_names.is_none

\* C1: when attribute_names is supplied and the call returns, the record
\* has one field per value, the name of field i is the validated i-th
\* supplied name and the value of field i is the i-th value returned by the
\* decorated function: nothing is reordered, dropped or deduplicated.
C1_PositionalFidelity ==
    (pc = "returned" /\ NamesSupplied) =>
        /\ result.kind = "NamedTuple"
        /\ Len(result.fields) = Len(kwargs.attribute_names.items)
        /\ Len(result.values) = Len(iterable_input)
        /\ \A i \in 1..Len(iterable_input) :
              /\ result.fields[i] = ValidateName(kwargs.attribute_names.items[i], i - 1)
              /\ result.values[i] = iterable_input[i]

\* C1 happens: a record of two different values is returned under supplied
\* names the validation had to change
C1_Witness ==
    /\ pc = "returned"
    /\ NamesSupplied
    /\ Len(iterable_input) = 2
    /\ iterable_input[1] # iterable_input[2]
    /\ result.fields[1] # kwargs.attribute_names.items[1]
    /\ result.fields[2] # kwargs.attribute_names.items[2]

\* index_0, ..., index_(n-1)
IndexNames(n) == [i \in 1..n |-> IndexPrefix \o FormatDecimal(i - 1)]

\* the call asks for automatic names: auto_attribute_names=True, no names
AutoRequested ==
    /\ ValuesReturned
    /\ kwargs.attribute_names.is_none
    /\ kwargs.auto_attribute_names = "True"

\* C2: with auto_attribute_names=True and no attribute_names, no prompt is
\* ever issued and the call ends by returning a record whose field names
\* are index_0, ..., index_(N-1) in this order, N the number of values.
C2_AutoNames ==
    AutoRequested =>
        /\ prompts = <<>>
        /\ CallOver =>
              /\ pc = "returned"
              /\ result.kind = "NamedTuple"
              /\ result.fields = IndexNames(Len(iterable_input))

\* C2 happens: two values were named automatically
C2_Witness ==
    /\ AutoRequested
    /\ pc = "returned"
    /\ Len(iterable_input) >= 2
    /\ result.fields = IndexNames(Len(iterable_input))

\* C3: when the validated names and the values differ in number, the call
\* ends with the ValueError that reports both lengths, the process keeps
\* running, there is no record, and the list of names has the length it
\* had before the validation (nothing truncated, nothing padded).
C3_CountMismatch ==
    (pc \in {"created", "returned", "raised"} /\ ValuesReturned
        /\ Len(attribute_names) # Len(iterable_input)) =>
        /\ pc = "raised"
        /\ result.kind = "ValueError"
        /\ result.message = "Length of iterable_input and attribute_names must be equal"
        /\ result.iterable_input_length = Len(iterable_input)
        /\ result.attribute_names_length = Len(attribute_names)
        /\ result.fields = <<>>
        /\ result.values = <<>>
        /\ process.state = "running"
        /\ Len(attribute_names) = Len(raw_names)

\* C3 happens: the error was raised for more values than names
C3_Witness ==
    /\ pc = "raised"
    /\ Len(attribute_names) < Len(iterable_input)
    /\ Len(attribute_names) > 0

\* C4: when the validated names and the values agree in number, the call
\* ends by returning a record.
C4_EqualLengthsSucceed ==
    (CallOver /\ Len(attribute_names) = Len(iterable_input)) =>
        /\ pc = "returned"
        /\ result.kind = "NamedTuple"

\* the call prompts for names: no attribute_names, auto_attribute_names
\* not True
PromptRequested ==
    /\ ValuesReturned
    /\ kwargs.attribute_names.is_none
    /\ kwargs.auto_attribute_names # "True"

\* the return values of the calls of input(), in order
Responses == [k \in 1..Len(prompts) |-> prompts[k].response]

\* C10: without attribute_names and without auto_attribute_names=True the
\* k-th prompt shows the k-th value, its response is the k-th candidate
\* name, and once the names are collected there has been exactly one
\* prompt per value.
C10_OnePromptPerValue ==
    PromptRequested =>
        /\ Len(prompts) <= Len(iterable_input)
        /\ \A k \in 1..Len(prompts) :
              prompts[k].prompt = PromptFor(iterable_input[k])
        /\ pc = "collect" => (Len(prompts) = index /\ attribute_names = Responses)
        /\ pc \notin {"resolve", "collect"} => Len(prompts) = Len(iterable_input)
        /\ pc = "sanitize" => attribute_names = Responses
        /\ pc \in {"validate", "arity", "created", "returned", "raised"} =>
              raw_names = Responses

\* C10 happens: two different values were prompted for, with two different
\* responses, and the call is over
C10_Witness ==
    /\ PromptRequested
    /\ CallOver
    /\ Len(prompts) = 2
    /\ prompts[1].prompt.value # prompts[2].prompt.value
    /\ prompts[1].response # prompts[2].response

(***************************************************************************)
(* Properties of validate_attribute_input.                                 *)
(***************************************************************************)
\* validate_attribute_input has returned to its direct caller
Validated == pc = "validated"

\* C5: every name validate_attribute_input returns is non-empty, starts
\* with an ASCII letter and consists of letters, digits and underscores
\* only (no whitespace, no hyphen, no other punctuation).
C5_ValidIdentifiers ==
    Validated =>
        \A i \in 1..Len(attribute_names) :
            /\ attribute_names[i] # <<>>
            /\ attribute_names[i][1] \in AsciiLetters
            /\ \A k \in 1..Len(attribute_names[i]) :
                  attribute_names[i][k] \in
                      AsciiLetters \cup NonAsciiLetters \cup DecimalDigits \cup {"_"}

\* C6: validate_attribute_input called on a list it returned returns an
\* equal list: every later return equals the first one, name for name.
C6_Idempotent ==
    \A c \in 2..Len(returned) : returned[c] = returned[1]

\* C6 happens: the list the first call returned was passed to a second
\* call, its last name being the fallback name of its position
C6_Witness ==
    /\ Validated
    /\ Len(returned) >= 2
    /\ Len(attribute_names) >= 1
    /\ returned[2][Len(attribute_names)] = IndexName(Len(attribute_names) - 1)
    /\ returned[1] = raw_names

\* the positions of s that hold a character outside the set S
PositionsOutside(s, S) == {k \in 1..Len(s) : s[k] \notin S}

\* the least and the greatest element of a non-empty set of numbers
Least(S) == CHOOSE k \in S : \A j \in S : k <= j
Greatest(S) == CHOOSE k \in S : \A j \in S : j <= k

\* s without its leading and trailing whitespace
Trimmed(s) ==
    LET solid == PositionsOutside(s, WhitespaceCharacters)
    IN  IF solid = {} THEN <<>> ELSE SubSeq(s, Least(solid), Greatest(solid))

\* s from its first ASCII letter on
FromFirstLetter(s) ==
    LET letters == {k \in 1..Len(s) : s[k] \in AsciiLetters}
    IN  IF letters = {} THEN <<>> ELSE SubSeq(s, Least(letters), Len(s))

\* s restricted to the characters of S
Restricted(s, S) == LET In(c) == c \in S IN SelectSeq(s, In)

\* s with an underscore for every whitespace character
Underscored(s) ==
    [k \in 1..Len(s) |-> IF s[k] \in WhitespaceCharacters THEN "_" ELSE s[k]]

\* the five steps as stated: one trim, ASCII letters only in step 3
FiveSteps(s, i) ==
    LET step1 == Trimmed(s)
        step2 == FromFirstLetter(step1)
        step3 == Restricted(step2, AsciiLetters \cup DecimalDigits
                                   \cup WhitespaceCharacters \cup {"_", "-"})
        step4 == Underscored(step3)
    IN  IF step4 = <<>> THEN IndexPrefix \o FormatDecimal(i) ELSE step4

\* the five steps with a trim before each of steps 2, 3 and 4, step 3
\* keeping the letters of every alphabet
FiveStepsTrimmed(s, i) ==
    LET step2 == FromFirstLetter(Trimmed(s))
        step3 == Restricted(Trimmed(step2),
                            AsciiLetters \cup NonAsciiLetters \cup DecimalDigits
                                \cup WhitespaceCharacters \cup {"_", "-"})
        step4 == Underscored(Trimmed(step3))
    IN  IF step4 = <<>> THEN IndexPrefix \o FormatDecimal(i) ELSE step4

\* C7 as stated: the name returned for position i is the result of the five
\* steps trim, strip the leading non-letters, remove what is not an ASCII
\* letter, digit, underscore, hyphen or whitespace, underscore for each
\* whitespace, index_<i> if empty.
C7_FiveSteps ==
    (Validated /\ Len(returned) = 1) =>
        \A i \in 1..Len(attribute_names) :
            attribute_names[i] = FiveSteps(raw_names[i], i - 1)

\* C7 amended: the same with the whitespace trimmed again before step 3 and
\* before step 4, and with step 3 keeping every word character (letters of
\* any alphabet, digits, underscore), hyphens and whitespace.
C7_FiveStepsTrimmed ==
    (Validated /\ Len(returned) = 1) =>
        \A i \in 1..Len(attribute_names) :
            attribute_names[i] = FiveStepsTrimmed(raw_names[i], i - 1)

\* C7 amended happens: a name was validated whose invalid last character
\* leaves whitespace at the end, which the steps as stated turn into an
\* underscore
C7_Witness ==
    /\ Validated
    /\ Len(returned) = 1
    /\ \E i \in 1..Len(attribute_names) :
          /\ raw_names[i] # <<>>
          /\ raw_names[i][Len(raw_names[i])] \in PunctuationCharacters
          /\ FiveSteps(raw_names[i], i - 1) = Append(attribute_names[i], "_")

\* C8: no two positions of a list validate_attribute_input returns hold
\* the same name.
C8_UniqueNames ==
    Validated =>
        \A i, j \in 1..Len(attribute_names) :
            i # j => attribute_names[i] # attribute_names[j]

\* C9: validate_attribute_input raises nothing and returns a list as long
\* as the one it got, the name at position i being a function of the raw
\* name at position i and of i alone.
C9_SameLengthPositional ==
    /\ result.kind = "none"
    /\ process.state = "running"
    /\ Len(attribute_names) = Len(raw_names)
    /\ Validated =>
          \A i \in 1..Len(attribute_names) :
              attribute_names[i] = ValidateName(raw_names[i], i - 1)

\* C9 happens: a list of two names none of which survives the validation
\* was returned with a different name at each position
C9_Witness ==
    /\ Validated
    /\ Len(returned) = 1
    /\ Len(raw_names) = 2
    /\ attribute_names[1] # raw_names[1]
    /\ attribute_names[2] # raw_names[2]
    /\ attribute_names[1] = IndexName(0)
    /\ attribute_names[2] = IndexName(1)

(***************************************************************************)
(* Properties of the call of the decorated function.                       *)
(***************************************************************************)
\* the decorated function was called and returned, an iterable or not
FunctionReturned ==
    /\ pc \in {"resolve", "collect", "sanitize", "validate", "arity",
               "created", "returned", "raised"}
    /\ result.kind = "TypeError" => not_iterable

\* the names of a list after the validation
ValidatedNames(names) == [i \in 1..Len(names) |-> ValidateName(names[i], i - 1)]

\* C11: when a non-empty attribute_names is supplied, the candidate names
\* are its elements in their order, no prompt is issued, and the names of
\* the record are those elements validated, whatever auto_attribute_names
\* is.
C11_NamesArgumentWins ==
    (FunctionReturned /\ NamesSupplied /\ pc # "resolve"
        /\ kwargs.attribute_names.items # <<>>) =>
        /\ prompts = <<>>
        /\ pc = "sanitize" => attribute_names = kwargs.attribute_names.items
        /\ pc # "sanitize" => raw_names = kwargs.attribute_names.items
        /\ pc = "returned" =>
              result.fields = ValidatedNames(kwargs.attribute_names.items)

\* C11 happens: a record is returned under two supplied names although
\* auto_attribute_names=True was passed with them
C11_Witness ==
    /\ pc = "returned"
    /\ NamesSupplied
    /\ Len(kwargs.attribute_names.items) = 2
    /\ kwargs.auto_attribute_names = "True"
    /\ result.fields # IndexNames(2)
    /\ result.fields = ValidatedNames(kwargs.attribute_names.items)

\* C12: decorating calls the function never; every call of the wrapper
\* calls it exactly once, with the positional and keyword arguments of the
\* wrapper as they are (attribute_names and auto_attribute_names with
\* them), and before any name is resolved or any prompt is shown.
C12_FunctionCalledOnceFirst ==
    /\ pc \in {"decorate", "idle", "call"} =>
          /\ function_calls = <<>>
          /\ prompts = <<>>
          /\ attribute_names = <<>>
          /\ raw_names = <<>>
    /\ pc \notin {"decorate", "idle", "call"} =>
          /\ Len(function_calls) = 1
          /\ function_calls[1].args = args
          /\ function_calls[1].kwargs = kwargs

\* C12 happens: a call with a positional iterable_input and the keyword
\* auto_attribute_names=False returned a record after two prompts, the
\* function having got both arguments in its one call
C12_Witness ==
    /\ pc = "returned"
    /\ Len(function_calls) = 1
    /\ Len(function_calls[1].args) = 1
    /\ function_calls[1].args[1].items = iterable_input
    /\ function_calls[1].kwargs.auto_attribute_names = "False"
    /\ Len(prompts) = 2

\* the call has a keyword the wrapper reads
WrapperKeywordPassed ==
    \/ kwargs.attribute_names.given
    \/ kwargs.auto_attribute_names # "absent"

\* the names of the parameters the function declares
Declared(f) == {f.parameters[k] : k \in 1..Len(f.parameters)}

\* the call gives the function no name it does not declare and a value for
\* every parameter without a default (iterable_input comes first and is
\* passed once, by position or by keyword)
FunctionAccepts ==
    /\ Keywords(kwargs) \subseteq Declared(function)
    /\ function.required \subseteq
          (Keywords(kwargs) \cup {"iterable_input"})

ConversionFailed ==
    /\ pc \notin {"decorate", "idle", "call"}
    /\ function = make_named_tuple
    /\ ~BoundIterable(args, kwargs).iterable

\* graceful_exit is running or has ended the process
InGracefulExit ==
    pc \in {"graceful_exit", "print error_object", "exit",
            "except SystemExit", "exited"}

\* C14: when make_named_tuple is called with an iterable_input that is not
\* iterable, graceful_exit is called once, with the error message and the
\* TypeError; the call never returns to the caller, no TypeError is raised
\* to it and no record is made; the process ends with status 1,
\* graceful_exit having written the message to stdout and then the repr of
\* the TypeError to stderr.
C14_NotIterableExits ==
    ConversionFailed =>
        /\ InGracefulExit
        /\ Len(exit_calls) = 1
        /\ exit_calls[1].error_message =
              "Unable to convert iterable_input value to a tuple object"
        /\ exit_calls[1].error_object = "TypeError"
        /\ result = NoResult
        /\ prompts = <<>>
        /\ pc = "exited" =>
              /\ process = [state |-> "exited", status |-> 1]
              /\ output = <<[stream |-> "stdout",
                             text |-> exit_calls[1].error_message],
                            [stream |-> "stderr",
                             text |-> Repr("TypeError")]>>

\* C14 happens: the process has ended in a call of make_named_tuple that
\* passed the object by keyword together with auto_attribute_names=True
C14_Witness ==
    /\ ConversionFailed
    /\ pc = "exited"
    /\ ~kwargs.iterable_input.iterable
    /\ kwargs.iterable_input.given
    /\ kwargs.auto_attribute_names = "True"
    /\ process.state = "exited"

\* C15: graceful_exit is called only when the conversion of the values
\* failed or the counts of names and values differ, and by no call that
\* makes or returns a record.
C15_ExitOnlyOnFailure ==
    /\ exit_calls # <<>> =>
          \/ ConversionFailed
          \/ /\ pc = "raised"
             /\ result.message =
                   "Length of iterable_input and attribute_names must be equal"
    /\ pc \in {"created", "returned"} => exit_calls = <<>>
    /\ InGracefulExit <=> exit_calls # <<>>

\* C15 happens: graceful_exit has just been called for a positional
\* argument that is not iterable, after none of the record building
C15_Witness ==
    /\ pc = "graceful_exit"
    /\ Len(exit_calls) = 1
    /\ args = <<NotIterable>>
    /\ attribute_names = <<>>
    /\ result = NoResult

\* C16: when the decorated function returns an object that is not
\* iterable, the call of the wrapper ends with an invalid-input error the
\* wrapper raises itself, a ValueError as for mismatched counts, and not
\* with the TypeError of a built-in that met the object.
C16_TypedInvalidInput ==
    (FunctionReturned /\ not_iterable /\ pc = "raised") =>
        result.kind = "ValueError"

(***************************************************************************)
(* Properties of graceful_exit and of initialize_logging.                  *)
(***************************************************************************)
\* s ends with t
EndsWith(s, t) ==
    /\ Len(t) <= Len(s)
    /\ SubSeq(s, Len(s) - Len(t) + 1, Len(s)) = t

\* what graceful_exit prints for its message
MessageOutput(call) ==
    IF call.error_message # "None"
    THEN <<[stream |-> "stdout", text |-> call.error_message]>>
    ELSE <<>>

\* what graceful_exit prints for its error
ErrorOutput(call) ==
    IF call.error_object # "None"
    THEN <<[stream |-> "stderr", text |-> Repr(call.error_object)]>>
    ELSE <<>>

LevelResolved ==
    pc \in {"print level", "push handler", "started", "initialized"}

\* C18: when initialize_logging is called with log_level=None, as without
\* LOG_LEVEL in the environment, logging is initialized at level INFO.
C18_DefaultLevelInfo ==
    (LevelResolved /\ log_call.log_level.is_none) => log_level = INFO

\* the level names the module docstring of namedtuple_maker lists
DocumentedLevels ==
    {FATAL, ERROR, CRITICAL, WARN, WARNING, INFO, NOTICE, DEBUG, TRACE}

\* C19: each of FATAL, ERROR, CRITICAL, WARN, WARNING, INFO, NOTICE, DEBUG
\* and TRACE, in any letter case, is accepted by initialize_logging: the
\* level is resolved, and graceful_exit is not called for the level.
C19_DocumentedLevelsAccepted ==
    (pc # "initialize_logging" /\ ~log_call.log_level.is_none
        /\ Upper(log_call.log_level.text) \in DocumentedLevels) =>
        /\ log_level # <<>>
        /\ exit_calls # <<>> =>
              exit_calls[1].error_message
                  # "The specified logging level is invalid"

\* the level initialize_logging was asked for
RequestedLevel ==
    IF log_call.log_level.is_none THEN LOG_LEVEL_DEFAULT
    ELSE NormalizedLevel(log_call.log_level.text)

\* all of s but its last element
Front(s) == SubSeq(s, 1, Len(s) - 1)

\* C20: after initialize_logging(log_level=L, log_to_console=True) has
\* returned, the call has put exactly one handler on the stack, a
\* StreamHandler on stdout at level L and no file handler, and every
\* record a logger emitted at level L or above went to that handler and
\* is in the output on stdout.
C20_ConsoleLogging ==
    (pc = "initialized" /\ log_call.log_to_console) =>
        /\ handlers # <<>>
        /\ Front(handlers) \in ImportHandlers
        /\ handlers[Len(handlers)] =
              [kind |-> "StreamHandler", target |-> "stdout",
               level |-> RequestedLevel]
        /\ \A k \in 1..Len(log_records) :
              LogbookLevel(log_records[k].record.level)
                  >= LogbookLevel(RequestedLevel) =>
                  /\ log_records[k].handler = Len(handlers)
                  /\ \E j \in 1..Len(output) :
                        output[j] = [stream |-> "stdout",
                                     text |-> log_records[k].record]

\* C20 happens: after initialize_logging(log_level='INFO',
\* log_to_console=True), called with a file handler already on the stack,
\* the caller's record at level INFO is on stdout and one at level DEBUG
\* is not
C20_Witness ==
    /\ pc = "initialized"
    /\ log_call.log_to_console
    /\ log_call.log_level.text = INFO
    /\ Len(handlers) = 2
    /\ Len(log_records) = 4
    /\ log_records[3].record = LogRecord("Initialization Log", INFO, "This is a log entry.")
    /\ log_records[3].handler = 2
    /\ log_records[4].record.level = DEBUG
    /\ log_records[4].handler = 0
    /\ output[Len(output)] = [stream |-> "stdout", text |-> log_records[3].record]

(***************************************************************************)
(* Properties of the names around a body.                                  *)
(***************************************************************************)
\* the position of the first ASCII letter of s, 0 without one
BodyStart(s) ==
    LET letters == {k \in 1..Len(s) : s[k] \in AsciiLetters}
    IN  IF letters = {} THEN 0 ELSE Least(letters)

\* the position of the last word character of s, 0 without one
BodyEnd(s) ==
    LET words == {k \in 1..Len(s) : s[k] \in WordCharacters}
    IN  IF words = {} THEN 0 ELSE Greatest(words)

\* the body of s: from its first ASCII letter to its last word character
Body(s) == SubSeq(s, BodyStart(s), BodyEnd(s))

\* s is non-letters, then a body of word characters and interior
\* whitespace, then whitespace and disallowed punctuation
Surrounded(s) ==
    /\ BodyStart(s) > 0
    /\ \A k \in BodyStart(s)..BodyEnd(s) :
          s[k] \in WordCharacters \cup WhitespaceCharacters
    /\ \A k \in (BodyEnd(s) + 1)..Len(s) :
          s[k] \in WhitespaceCharacters \cup PunctuationCharacters

\* C21: for a raw name made of an identifier body with whitespace, leading
\* non-letters and disallowed punctuation around it, the validated name is
\* the body with an underscore for each whitespace character inside it:
\* it starts with the first letter of the body and ends with its last word
\* character, no underscore standing for whitespace next to the body.
C21_SurroundingsDropped ==
    (Validated /\ Len(returned) = 1) =>
        \A i \in 1..Len(attribute_names) :
            Surrounded(raw_names[i]) =>
                /\ attribute_names[i] = Underscored(Body(raw_names[i]))
                /\ attribute_names[i][1] \in AsciiLetters
                /\ attribute_names[i][Len(attribute_names[i])] =
                      raw_names[i][BodyEnd(raw_names[i])]

\* C21 happens: a name whose body is followed by whitespace and then by
\* disallowed punctuation was validated to its body
C21_Witness ==
    /\ Validated
    /\ Len(returned) = 1
    /\ \E i \in 1..Len(attribute_names) :
          /\ Surrounded(raw_names[i])
          /\ Len(raw_names[i]) = BodyEnd(raw_names[i]) + 2
          /\ raw_names[i][Len(raw_names[i]) - 1] \in WhitespaceCharacters
          /\ raw_names[i][Len(raw_names[i])] \in PunctuationCharacters
          /\ attribute_names[i] = Body(raw_names[i])

(***************************************************************************)
(* Properties of the whole call of the wrapper.                            *)
(***************************************************************************)
\* the call has an attribute_names that is an empty sequence
EmptyNamesSupplied ==
    /\ ValuesReturned
    /\ kwargs.attribute_names.given
    /\ ~kwargs.attribute_names.is_none
    /\ kwargs.attribute_names.items = <<>>

\* C22 (as stated): an empty attribute_names is treated like an absent
\* one: the call gets one name per value, index_0, ... with
\* auto_attribute_names=True and one prompt per value otherwise, and
\* returns a record.
C22_EmptyNamesAsAbsent ==
    (EmptyNamesSupplied /\ pc \in {"returned", "raised"}) =>
        /\ Len(attribute_names) = Len(iterable_input)
        /\ kwargs.auto_attribute_names = "True" =>
              attribute_names = IndexNames(Len(iterable_input))
        /\ kwargs.auto_attribute_names # "True" =>
              Len(prompts) = Len(iterable_input)

\* C22 (amended): an empty attribute_names is used as it is: the list of
\* names is empty, no prompt is shown and no name is generated, whatever
\* auto_attribute_names is, and the call ends with the count-mismatch
\* ValueError unless there are no values, when it returns a record
\* without fields.
C22_EmptyNamesUsed ==
    (EmptyNamesSupplied /\ pc # "resolve") =>
        /\ attribute_names = <<>>
        /\ prompts = <<>>
        /\ pc \in {"returned", "raised"} =>
              IF iterable_input = <<>>
              THEN /\ pc = "returned"
                   /\ result.kind = "NamedTuple"
                   /\ result.fields = <<>>
              ELSE /\ pc = "raised"
                   /\ result.kind = "ValueError"
                   /\ result.message =
                         "Length of iterable_input and attribute_names must be equal"
                   /\ result.attribute_names_length = 0
                   /\ result.iterable_input_length = Len(iterable_input)

\* C22 happens: a call with two values, attribute_names=[] and
\* auto_attribute_names=True has raised the ValueError
C22_Witness ==
    /\ EmptyNamesSupplied
    /\ pc = "raised"
    /\ Len(iterable_input) = 2
    /\ kwargs.auto_attribute_names = "True"
    /\ result.kind = "ValueError"
    /\ attribute_names = <<>>

\* the steps of one call of the wrapper, once its function has returned:
\* the pairs of a place and the place that may come next
PassOrder ==
    {<<"resolve", "sanitize">>, <<"resolve", "collect">>,
     <<"collect", "sanitize">>, <<"collect", "raised">>,
     <<"sanitize", "validate">>, <<"validate", "arity">>,
     <<"arity", "created">>, <<"arity", "raised">>,
     <<"created", "returned">>}

\* the call is at the arity check or past it
SanitizedBefore ==
    \/ pc \in {"arity", "created", "returned"}
    \/ pc = "raised" /\ result.kind = "ValueError"

\* what holds in every state of the single pass
SinglePassState ==
    /\ Len(function_calls) <= 1
    /\ Len(returned) <= 1
    /\ ValuesReturned => Len(prompts) <= Len(iterable_input)
    /\ pc \in {"resolve", "collect", "sanitize", "validate"} =>
          /\ returned = <<>>
          /\ result = NoResult
    /\ (ValuesReturned /\ SanitizedBefore) =>
          /\ Len(returned) = 1
          /\ returned[1] = attribute_names
          /\ attribute_names = ValidatedNames(raw_names)
    /\ pc = "arity" => result = NoResult
    /\ result.kind = "NamedTuple" =>
          /\ pc \in {"created", "returned"}
          /\ Len(attribute_names) = Len(iterable_input)
          /\ result.fields = attribute_names
          /\ result.values = iterable_input
    /\ pc = "returned" => result.kind = "NamedTuple"
    /\ pc = "raised" =>
          /\ result.kind \in {"ValueError", "TypeError"}
          /\ result.fields = <<>>
          /\ result.values = <<>>

\* what holds of every step of the single pass
SinglePassStep ==
    /\ (pc' # pc /\ pc \in {"resolve", "collect", "sanitize", "validate",
                            "arity", "created"}) =>
          <<pc, pc'>> \in PassOrder
    /\ pc # "collect" => prompts' = prompts
    /\ pc \notin {"resolve", "collect", "validate"} =>
          attribute_names' = attribute_names
    /\ pc \in {"returned", "raised"} => vars' = vars

\* C23: a call of the wrapper goes once through resolve names, sanitize,
\* check arity, construct, return, in this order: the validation has
\* returned before the lengths are compared (also when they differ), the
\* record is made only after they were found equal, nothing is asked or
\* validated a second time, and the call ends with a record that has every
\* name and every value or with an error and no record.
C23_SinglePass == []SinglePassState /\ [][SinglePassStep]_vars

\* C23 happens: the count-mismatch error was raised after a validation
\* that has returned and has changed the names
C23_Witness ==
    /\ pc = "raised"
    /\ ValuesReturned
    /\ result.message = "Length of iterable_input and attribute_names must be equal"
    /\ Len(returned) = 1
    /\ attribute_names # raw_names
    /\ attribute_names = ValidatedNames(raw_names)

\* the count-mismatch error was raised
CountMismatchRaised ==
    /\ pc = "raised"
    /\ result.message = "Length of iterable_input and attribute_names must be equal"

\* C24: without attribute_names, under automatic names and under prompts,
\* the list of names has one entry per value seen so far and, once
\* collected, exactly one per value, so the count-mismatch error is never
\* raised; it is raised only in calls that supplied attribute_names.
C24_MismatchOnlyWithNames ==
    /\ (ValuesReturned /\ ~NamesSupplied) =>
          /\ pc = "collect" =>
                (Len(attribute_names) = index /\ index <= Len(iterable_input))
          /\ pc \in {"sanitize", "validate", "arity", "created", "returned",
                     "raised"} =>
                Len(attribute_names) = Len(iterable_input)
          /\ ~CountMismatchRaised
    /\ CountMismatchRaised => NamesSupplied

\* C24 happens: two names collected at two prompts met two values at the
\* comparison of the lengths
C24_Witness ==
    /\ pc = "arity"
    /\ ~NamesSupplied
    /\ Len(prompts) = 2
    /\ Len(attribute_names) = 2
    /\ Len(iterable_input) = 2

\* C25: when a call of the wrapper is over, with a record or with the
\* count-mismatch error, the keyword arguments are what they were when the
\* function was called, the caller's attribute_names holding the names as
\* passed and not as validated, and the values are those the function
\* returned, in their order.
C25_InputsUnchanged ==
    (pc \in {"returned", "raised"} /\ ValuesReturned) =>
        /\ kwargs = function_calls[1].kwargs
        /\ args = function_calls[1].args
        /\ iterable_input = BoundIterable(args, kwargs).items
        /\ NamesSupplied =>
              /\ kwargs.attribute_names.items = raw_names
              /\ pc = "returned" =>
                    result.fields = ValidatedNames(kwargs.attribute_names.items)

\* C25 happens: a record of two values was returned under names the
\* validation changed, the caller's list still holding the names as passed
C25_Witness ==
    /\ pc = "returned"
    /\ NamesSupplied
    /\ Len(iterable_input) = 2
    /\ kwargs.attribute_names.items = raw_names
    /\ result.fields # kwargs.attribute_names.items
    /\ result.values = BoundIterable(args, kwargs).items

\* initialize_logging was called with a level name that is not valid once
\* upper-cased and stripped, and is past its check of the level
InvalidLevelRejected ==
    /\ pc # "initialize_logging"
    /\ ~log_call.log_level.is_none
    /\ ~InLogLevels(NormalizedLevel(log_call.log_level.text))

\* C26: when initialize_logging is called with a level name that, stripped
\* and upper-cased, is not a valid level name, an error of an exception
\* type is raised to the caller, whose process keeps running, and the call
\* puts no handler, file or console, on the stack.
C26_InvalidLevelTypedError ==
    InvalidLevelRejected =>
        /\ pc = "raised"
        /\ result.kind \in {"ValueError", "TypeError"}
        /\ process = Running
        /\ exit_calls = <<>>
        /\ handlers \in ImportHandlers
        /\ log_records = <<>>

\* the half of C26 the code keeps: a rejected level name leaves the stack
\* of handlers as it was and logs nothing
C26_NoHandlerInstalled ==
    InvalidLevelRejected =>
        /\ handlers \in ImportHandlers
        /\ log_level = <<>>
        /\ log_records = <<>>

=============================================================================
